---- MODULE Spec2Model ----
(***************************************************************************)
(* Response-judgment pipeline of the chat-logging service                  *)
(* (Clip3/backend/routes.py): evaluate_response and the /chat endpoint     *)
(* that calls it and persists the verdict.                                 *)
(*                                                                         *)
(* Texts are sequences of one-character strings.  Python values are        *)
(* records [t, n, s] of a Python type name t, a number n and a string s;   *)
(* a JSON document is a record of JSON kinds, and json_loads converts one  *)
(* into the other the way json.loads does.  Writing to stdout (print) is   *)
(* modelled as appending a tag to trace and is assumed to succeed.         *)
(***************************************************************************)
EXTENDS Integers, Sequences, FiniteSets, TLC

VARIABLES
    api_key,          \* openai.api_key is configured
    chat_pc,          \* position of the /chat handler
    user_prompt,      \* request.prompt
    ai_response,      \* text of the main completion
    total_tokens,     \* usage.total_tokens of the main completion
    eval_pc,          \* position inside evaluate_response
    judge_calls,      \* remote judge calls issued by this invocation
    call_result,      \* how the judge call ended: an exception, a malformed reply, "replied"
    evaluation_text,  \* response.choices[0].message.content of the judge call
    evaluation_tokens,\* response.usage.total_tokens of the judge call
    path,             \* which return statement / handler produced the verdict
    judgment_data,    \* the dict evaluate_response returned
    trace,            \* diagnostic trace entries printed so far
    chat_logs,        \* committed rows of table chat_logs
    db_commit,        \* outcome of db.commit(): "none", "ok" or "failed"
    http,             \* what the endpoint answered
    pair_pc,          \* two invocations of evaluate_response: each one's position
    pair_args,        \* the arguments each invocation was called with
    pair_outcome,     \* how each invocation's judge call ended
    frames,           \* the local variables of each invocation
    pair_result,      \* the dict each invocation returned
    stdout,           \* what the invocations printed, in order
    log_rows,         \* GET /sessions: created_at of each row of chat_logs, by row
    limit,            \* GET /sessions: the page size the client keeps using
    pages_served,     \* GET /sessions: the latest answer for each page number
    mig_pc,           \* run_migration: position inside the current run
    table_exists,     \* whether table chat_logs exists
    columns,          \* committed columns of chat_logs
    table_rows,       \* number of rows of chat_logs
    pending,          \* columns added inside the open transaction
    existing_columns, \* run_migration: the local list of judgment columns found
    alter_index,      \* run_migration: which of the five ADD COLUMN blocks is next
    run_result,       \* run_migration: what the current run returned
    runs,             \* runs of the script started so far
    columns_at_first, \* columns before the first run
    columns_at_start, \* columns when the current run started
    alters_in_run,    \* ALTER TABLE statements the current run executed
    failed_at,        \* the statement of the current run that raised, if any
    prev_result,      \* what the previous run returned
    gen_pc,           \* test data generator: position inside generate_test_data
    running,          \* self.running
    stats,            \* self.stats, the counters
    start_time,       \* whether self.stats['start_time'] has been set
    gen_i,            \* the loop variable i
    gen_count,        \* the argument count
    signalled,        \* whether _signal_handler has run
    started_after_signal, \* requests started after _signal_handler ran
    gen_outcome       \* how generate_test_data ended

vars == <<api_key, chat_pc, user_prompt, ai_response, total_tokens, eval_pc,
          judge_calls, call_result, evaluation_text, evaluation_tokens, path,
          judgment_data, trace, chat_logs, db_commit, http,
          pair_pc, pair_args, pair_outcome, frames, pair_result, stdout,
          log_rows, limit, pages_served,
          mig_pc, table_exists, columns, table_rows, pending, existing_columns,
          alter_index, run_result, runs, columns_at_first, columns_at_start,
          alters_in_run, failed_at, prev_result,
          gen_pc, running, stats, start_time, gen_i, gen_count, signalled,
          started_after_signal, gen_outcome>>

chat_vars == <<api_key, chat_pc, user_prompt, ai_response, total_tokens,
               eval_pc, judge_calls, call_result, evaluation_text,
               evaluation_tokens, path, judgment_data, trace, chat_logs,
               db_commit, http>>

pair_vars == <<pair_pc, pair_args, pair_outcome, frames, pair_result, stdout>>

sessions_vars == <<log_rows, limit, pages_served>>

migration_vars ==
    <<mig_pc, table_exists, columns, table_rows, pending, existing_columns,
      alter_index, run_result, runs, columns_at_first, columns_at_start,
      alters_in_run, failed_at, prev_result>>

generator_vars ==
    <<gen_pc, running, stats, start_time, gen_i, gen_count, signalled,
      started_after_signal, gen_outcome>>

\* what the steps of one program leave alone: the state of the others
outside_chat == <<pair_vars, sessions_vars, migration_vars, generator_vars>>

outside_pair == <<chat_vars, sessions_vars, migration_vars, generator_vars>>

outside_sessions == <<chat_vars, pair_vars, migration_vars, generator_vars>>

outside_migration == <<chat_vars, pair_vars, sessions_vars, generator_vars>>

outside_generator == <<chat_vars, pair_vars, sessions_vars, migration_vars>>

-----------------------------------------------------------------------------
(* Bounds of the explored inputs *)

\* a prompt is built from at most this many fragments
MaxPromptFrags == 2

\* rows of chat_logs when GET /sessions is asked
MaxRecords == 3

\* distinct created_at values among those rows
MaxStamp == 2

\* largest page size asked for
MaxLimit == 2

\* largest page number asked for
MaxPage == 3

\* runs of the migration script in a row
MaxRuns == 2

\* largest --count given to the test data generator
MaxCount == 3

-----------------------------------------------------------------------------
(* Texts *)

UpperAlphabet ==
    <<"A", "B", "C", "D", "E", "F", "G", "H", "I", "J", "K", "L", "M",
      "N", "O", "P", "Q", "R", "S", "T", "U", "V", "W", "X", "Y", "Z">>

LowerAlphabet ==
    <<"a", "b", "c", "d", "e", "f", "g", "h", "i", "j", "k", "l", "m",
      "n", "o", "p", "q", "r", "s", "t", "u", "v", "w", "x", "y", "z">>

\* the lower-case letter of each upper-case letter
LowerOf ==
    [u \in {UpperAlphabet[i] : i \in 1..Len(UpperAlphabet)} |->
        LowerAlphabet[CHOOSE i \in 1..Len(UpperAlphabet) : UpperAlphabet[i] = u]]

\* str.lower() on one character
LowerChar(c) == IF c \in DOMAIN LowerOf THEN LowerOf[c] ELSE c

\* str.lower()
RECURSIVE Lower(_)
Lower(text) ==
    IF text = <<>> THEN <<>>
    ELSE <<LowerChar(Head(text))>> \o Lower(Tail(text))

\* Python's `pat in text` on strings
IsSubstring(pat, text) ==
    \E i \in 0..(Len(text) - Len(pat)) :
        \A j \in 1..Len(pat) : text[i + j] = pat[j]

\* fake_patterns, in list order
fake_patterns ==
    << [name |-> "letort",
        chars |-> <<"l", "e", "t", "o", "r", "t">>],
       [name |-> "goldblueRedgreen",
        chars |-> <<"g", "o", "l", "d", "b", "l", "u", "e", "R", "e", "d",
                    "g", "r", "e", "e", "n">>],
       [name |-> "fakerouter",
        chars |-> <<"f", "a", "k", "e", "r", "o", "u", "t", "e", "r">>],
       [name |-> "xyz corp",
        chars |-> <<"x", "y", "z", " ", "c", "o", "r", "p">>],
       [name |-> "acme router",
        chars |-> <<"a", "c", "m", "e", " ", "r", "o", "u", "t", "e", "r">>],
       [name |-> "test device",
        chars |-> <<"t", "e", "s", "t", " ", "d", "e", "v", "i", "c", "e">>],
       [name |-> "sample router",
        chars |-> <<"s", "a", "m", "p", "l", "e", " ", "r", "o", "u", "t",
                    "e", "r">>],
       [name |-> "example switch",
        chars |-> <<"e", "x", "a", "m", "p", "l", "e", " ", "s", "w", "i",
                    "t", "c", "h">>],
       [name |-> "demo router",
        chars |-> <<"d", "e", "m", "o", " ", "r", "o", "u", "t", "e", "r">>] >>

\* variant: only the prompt is scanned
CombinedTextPromptOnly(prompt, response) == Lower(prompt)

\* variant: prompt and response are joined without the separating space
CombinedTextNoSeparator(prompt, response) == Lower(prompt \o response)

\* combined_text = (user_prompt + " " + ai_response).lower()
CombinedText(prompt, response) == Lower(prompt \o <<" ">> \o response)

\* pattern.lower(), for each pattern of the list
lower_patterns ==
    [i \in 1..Len(fake_patterns) |-> Lower(fake_patterns[i].chars)]

\* the condition of the loop body: pattern.lower() in combined_text
PatternHits(i, prompt, response) ==
    IsSubstring(lower_patterns[i], CombinedText(prompt, response))

\* variant: the loop starts at the second pattern of the list
PrefilterMatchesFromSecond(prompt, response) ==
    LET combined_text == CombinedText(prompt, response)
    IN  \E i \in 2..Len(fake_patterns) :
            IsSubstring(lower_patterns[i], combined_text)

\* some iteration of the loop returns
PrefilterMatches(prompt, response) ==
    LET combined_text == CombinedText(prompt, response)
    IN  \E i \in 1..Len(fake_patterns) :
            IsSubstring(lower_patterns[i], combined_text)

\* variant: the last pattern of the list that hits
MatchedPatternLastListed(prompt, response) ==
    CHOOSE i \in 1..Len(fake_patterns) :
        /\ PatternHits(i, prompt, response)
        /\ \A k \in (i + 1)..Len(fake_patterns) :
               ~PatternHits(k, prompt, response)

\* the iteration that returns: the first pattern of the list that hits
MatchedPattern(prompt, response) ==
    CHOOSE i \in 1..Len(fake_patterns) :
        /\ PatternHits(i, prompt, response)
        /\ \A k \in 1..(i - 1) : ~PatternHits(k, prompt, response)

-----------------------------------------------------------------------------
(* Inputs *)

PromptFragments ==
    { <<"L", "e">>,
      <<"t", "O", "R", "T">>,
      <<"x", "y", "z">> }

RECURSIVE TextsOf(_)
TextsOf(n) ==
    IF n = 0 THEN { <<>> }
    ELSE TextsOf(n - 1) \cup
         { t \o f : t \in TextsOf(n - 1), f \in PromptFragments }

PromptTexts == TextsOf(MaxPromptFrags)

ResponseTexts ==
    { <<"C", "i", "s", "c", "o", " ", "9", "0", "0", "0">>,
      <<"C", "o", "r", "p", " ", "L", "E", "T", "O", "R", "T">>,
      <<"C", "o", "r", "p">>,
      <<"t", "o", "r", "t">> }

-----------------------------------------------------------------------------
(* Python values *)

PyInt(k)   == [t |-> "int",      n |-> k, s |-> ""]
PyFloat(k) == [t |-> "float",    n |-> k, s |-> ""]   \* the float k.0
PyBool(b)  == [t |-> "bool",     n |-> IF b THEN 1 ELSE 0, s |-> ""]
PyStr(str) == [t |-> "str",      n |-> 0, s |-> str]
PyNone     == [t |-> "NoneType", n |-> 0, s |-> ""]

NoItems == [k \in {} |-> PyNone]

\* a value json.loads can return: a scalar, or a container described by the
\* strings it contains (names) and, for a dict, its items
PyScalar(v)   == [t |-> v.t, n |-> v.n, s |-> v.s, names |-> {}, items |-> NoItems]
PyDict(items) == [t |-> "dict", n |-> 0, s |-> "", names |-> DOMAIN items,
                  items |-> items]
PyList(elems) == [t |-> "list", n |-> 0, s |-> "", names |-> elems,
                  items |-> NoItems]
PyText(parts) == [t |-> "str", n |-> 0, s |-> "", names |-> parts,
                  items |-> NoItems]

-----------------------------------------------------------------------------
(* JSON documents: the text the judge model returns *)

JInt(k)    == [j |-> "number", n |-> k, frac |-> FALSE, s |-> ""]  \* 3
JReal(k)   == [j |-> "number", n |-> k, frac |-> TRUE,  s |-> ""]  \* 3.0
JTrue      == [j |-> "true",   n |-> 0, frac |-> FALSE, s |-> ""]
JFalse     == [j |-> "false",  n |-> 0, frac |-> FALSE, s |-> ""]
JNull      == [j |-> "null",   n |-> 0, frac |-> FALSE, s |-> ""]
JString(x) == [j |-> "string", n |-> 0, frac |-> FALSE, s |-> x]

NoMembers == [k \in {} |-> JNull]

JScalarDoc(d)    == [j |-> d.j, n |-> d.n, frac |-> d.frac, s |-> d.s,
                     names |-> {}, members |-> NoMembers]
JObject(members) == [j |-> "object", n |-> 0, frac |-> FALSE, s |-> "",
                     names |-> DOMAIN members, members |-> members]
JArray(elems)    == [j |-> "array", n |-> 0, frac |-> FALSE, s |-> "",
                     names |-> elems, members |-> NoMembers]
JTextDoc(parts)  == [j |-> "string", n |-> 0, frac |-> FALSE, s |-> "",
                     names |-> parts, members |-> NoMembers]

\* message.content: "" , whitespace only, text that is no JSON, or a JSON document
EmptyText      == [form |-> "empty",   doc |-> JScalarDoc(JNull)]
BlankText      == [form |-> "blank",   doc |-> JScalarDoc(JNull)]
GarbageText    == [form |-> "garbage", doc |-> JScalarDoc(JNull)]
JsonText(doc)  == [form |-> "json",    doc |-> doc]

\* json.loads on a scalar: JSON kinds become Python types
LoadScalar(d) ==
    CASE d.j = "number" /\ ~d.frac -> PyInt(d.n)
      [] d.j = "number" /\ d.frac  -> PyFloat(d.n)
      [] d.j = "true"              -> PyBool(TRUE)
      [] d.j = "false"             -> PyBool(FALSE)
      [] d.j = "null"              -> PyNone
      [] d.j = "string"            -> PyStr(d.s)

\* json.loads on a document
json_loads(doc) ==
    CASE doc.j = "object" ->
             PyDict([k \in DOMAIN doc.members |-> LoadScalar(doc.members[k])])
      [] doc.j = "array"  -> PyList(doc.names)
      [] doc.j = "string" -> PyText(doc.names)
      [] OTHER            -> PyScalar(LoadScalar(doc))

-----------------------------------------------------------------------------
(* What the judge call can return *)

\* total_tokens the judge call reports
JudgeTokenCounts == {57, 120}

\* marks a key the judge's JSON object leaves out
Absent == [j |-> "absent", n |-> 0, frac |-> FALSE, s |-> ""]

ScoreDocs     == {Absent, JInt(2), JInt(5), JInt(6), JReal(3), JString("3"),
                  JTrue, JFalse, JNull}
RationaleDocs == {Absent, JString("Accurate and complete"), JString(""), JNull}
FlagDocs      == {Absent, JTrue, JFalse, JString("true")}
\* further keys of the object: "tokens" and "confidence"
ExtraDocs     == {<<Absent, Absent>>, <<JInt(9), JTrue>>}

ObjectMembers(sc, ra, fl, ex) ==
    LET all  == [score |-> sc, rationale |-> ra, hallucination_flag |-> fl,
                 tokens |-> ex[1], confidence |-> ex[2]]
        keys == {k \in DOMAIN all : all[k] # Absent}
    IN  [k \in keys |-> all[k]]

required_fields == {"score", "rationale", "hallucination_flag"}

JudgeTexts ==
    {EmptyText, BlankText, GarbageText}
    \cup {JsonText(JScalarDoc(d)) : d \in {JInt(5), JNull, JTrue}}
    \cup {JsonText(JTextDoc(ns)) : ns \in {{}, required_fields}}
    \cup {JsonText(JArray(ns)) : ns \in {{}, required_fields}}
    \cup {JsonText(JObject(ObjectMembers(sc, ra, fl, ex))) :
              sc \in ScoreDocs, ra \in RationaleDocs, fl \in FlagDocs,
              ex \in ExtraDocs}

\* exceptions openai.ChatCompletion.create raises: network, timeout, provider
CallExceptions == {"APIConnectionError", "Timeout", "APIError"}

\* a reply object without choices or without usage
MalformedReplies == {"no_choices", "no_usage"}

-----------------------------------------------------------------------------
(* Parsing and validation of the judge's text *)

\* isinstance(v, int): bool is a subclass of int
IsInstanceInt(v) == v.t \in {"int", "bool"}

\* isinstance(v, bool)
IsInstanceBool(v) == v.t = "bool"

\* variant: the upper end of the range is excluded
ScoreInRangeExclusive(v) == 1 <= v.n /\ v.n < 5

\* 1 <= v <= 5, where True compares as 1 and False as 0
ScoreInRange(v) == 1 <= v.n /\ v.n <= 5

\* variant: a 'tokens' key already in the dict is kept
WithTokensKeepExisting(items, tokens) ==
    [k \in (DOMAIN items) \cup {"tokens"} |->
        IF k \in DOMAIN items THEN items[k] ELSE PyInt(tokens)]

\* evaluation_data['tokens'] = evaluation_tokens
WithTokens(items, tokens) ==
    [k \in (DOMAIN items) \cup {"tokens"} |->
        IF k = "tokens" THEN PyInt(tokens) ELSE items[k]]

Raise(exc) == [exc |-> exc, data |-> NoItems]

\* the body of the inner try: the exception it raises, or the dict it returns
ParseEvaluation(text, tokens) ==
    IF text.form \in {"empty", "blank"} THEN Raise("ValueError")
    ELSE IF text.form = "garbage" THEN Raise("JSONDecodeError")
    ELSE LET evaluation_data == json_loads(text.doc)
         IN  IF evaluation_data.t \notin {"dict", "list", "str"}
                 THEN Raise("TypeError")      \* `field in <number|None|bool>`
             ELSE IF ~(required_fields \subseteq evaluation_data.names)
                 THEN Raise("ValueError")
             ELSE IF evaluation_data.t # "dict"
                 THEN Raise("TypeError")      \* evaluation_data['score']
             ELSE IF \/ ~IsInstanceInt(evaluation_data.items["score"])
                     \/ ~ScoreInRange(evaluation_data.items["score"])
                 THEN Raise("ValueError")
             ELSE IF ~IsInstanceBool(evaluation_data.items["hallucination_flag"])
                 THEN Raise("ValueError")
             ELSE [exc |-> "none",
                   data |-> WithTokens(evaluation_data.items, tokens)]

\* except (json.JSONDecodeError, ValueError)
CaughtByParseHandler(exc) == exc \in {"JSONDecodeError", "ValueError"}

\* variant: only the value and provider errors are caught
CaughtByOuterHandlerNarrow(exc) ==
    exc \in {"JSONDecodeError", "ValueError", "APIConnectionError", "Timeout",
             "APIError"}

\* except Exception
CaughtByOuterHandler(exc) ==
    exc \in {"JSONDecodeError", "ValueError", "TypeError", "IndexError",
             "AttributeError", "APIConnectionError", "Timeout", "APIError"}

-----------------------------------------------------------------------------
(* The dicts evaluate_response returns *)

PrefilterVerdict(i) ==
    [score |-> PyInt(1),
     rationale |->
        PyStr("Response contains references to non-existent device '"
              \o fake_patterns[i].name
              \o "'. This appears to be a fabricated product name that doesn't exist in reality."),
     hallucination_flag |-> PyBool(TRUE),
     tokens |-> PyInt(0)]

ParseFailureVerdict(tokens) ==
    [score |-> PyInt(3),
     rationale |-> PyStr("Evaluation parsing failed - assigned neutral score"),
     hallucination_flag |-> PyBool(FALSE),
     tokens |-> PyInt(tokens)]

\* variant: the rationale of the other default
UnavailableVerdictOtherRationale ==
    [score |-> PyInt(3),
     rationale |-> PyStr("Evaluation parsing failed - assigned neutral score"),
     hallucination_flag |-> PyBool(FALSE),
     tokens |-> PyInt(0)]

UnavailableVerdict ==
    [score |-> PyInt(3),
     rationale |-> PyStr("Evaluation service unavailable - assigned neutral score"),
     hallucination_flag |-> PyBool(FALSE),
     tokens |-> PyInt(0)]

\* ['9000', 'letort', 'xyz corp', 'acme']
suspicious_patterns ==
    { <<"9", "0", "0", "0">>,
      <<"l", "e", "t", "o", "r", "t">>,
      <<"x", "y", "z", " ", "c", "o", "r", "p">>,
      <<"a", "c", "m", "e">> }

\* traces printed after a successful validation
SuccessTraces(data, response) ==
    <<"parsed">>
    \o (IF data["hallucination_flag"].n = 1 THEN <<"hallucination">> ELSE <<>>)
    \o (IF /\ data["score"].n >= 4
           /\ \E sp \in suspicious_patterns : IsSubstring(sp, Lower(response))
        THEN <<"high_score_suspicious">> ELSE <<>>)

-----------------------------------------------------------------------------
(* The /chat endpoint: persistence and the response model *)

\* usage.total_tokens of the main completion
MainTokenCounts == {200}

\* variant: the judgment token column takes the main completion's usage
ChatLogRowUsageTokens(prompt, response, tokens, data) ==
    [prompt |-> prompt,
     response |-> response,
     usage_tokens |-> tokens,
     judgment_score |-> data["score"],
     judgment_rationale |-> data["rationale"],
     hallucination_flag |-> data["hallucination_flag"],
     judgment_tokens |-> PyInt(tokens),
     judgment_data |-> data]

\* ChatLog(...): the row built from the request, the completion and the verdict
ChatLogRow(prompt, response, tokens, data) ==
    [prompt |-> prompt,
     response |-> response,
     usage_tokens |-> tokens,
     judgment_score |-> data["score"],
     judgment_rationale |-> data["rationale"],
     hallucination_flag |-> data["hallucination_flag"],
     judgment_tokens |-> data["tokens"],
     judgment_data |-> data]

\* JudgmentMetadata(score: int, rationale: str, hallucination_flag: bool,
\* tokens_used: int) accepts the values: a bool passes for an int, None does
\* not pass for a str
JudgmentMetadataValid(data) ==
    /\ data["score"].t \in {"int", "bool"}
    /\ data["rationale"].t = "str"
    /\ data["hallucination_flag"].t = "bool"
    /\ data["tokens"].t \in {"int", "bool"}

\* the validated model: int fields hold ints
JudgmentMetadata(data) ==
    [score |-> PyInt(data["score"].n),
     rationale |-> data["rationale"],
     hallucination_flag |-> data["hallucination_flag"],
     tokens_used |-> PyInt(data["tokens"].n)]

NoAnswer       == [status |-> 0,   judgment |-> NoItems]
HTTP500        == [status |-> 500, judgment |-> NoItems]
HTTP200(data)  == [status |-> 200, judgment |-> JudgmentMetadata(data)]

-----------------------------------------------------------------------------
(* State machine *)

\* ChatTestDataGenerator.__init__: counters at zero, not running, handler set
GeneratorConstructed ==
    /\ gen_pc = "constructed"
    /\ running = FALSE
    /\ stats = [total_sent |-> 0, successful |-> 0, failed |-> 0,
                positive_responses |-> 0, negative_responses |-> 0,
                neutral_responses |-> 0, total_tokens |-> 0]
    /\ start_time = FALSE
    /\ gen_i = 0
    /\ gen_count = 0
    /\ signalled = FALSE
    /\ started_after_signal = 0
    /\ gen_outcome = "none"

\* the columns the script adds, in the order of its ADD COLUMN blocks
judgment_columns ==
    <<"judgment_score", "judgment_rationale", "hallucination_flag",
      "judgment_tokens", "judgment_data">>

JudgmentColumnSet == { judgment_columns[i] : i \in 1..Len(judgment_columns) }

\* columns chat_logs has apart from the judgment columns
base_columns == {"id", "prompt", "response", "created_at"}

\* the script has not been started; the table holds columns cols
MigrationNotStarted(exists, cols, rows) ==
    /\ mig_pc = "idle"
    /\ table_exists = exists
    /\ columns = cols
    /\ table_rows = rows
    /\ pending = {}
    /\ existing_columns = {}
    /\ alter_index = 1
    /\ run_result = "none"
    /\ runs = 0
    /\ columns_at_first = cols
    /\ columns_at_start = cols
    /\ alters_in_run = 0
    /\ failed_at = "none"
    /\ prev_result = "none"

MigrationIdle == MigrationNotStarted(TRUE, base_columns, 0)

\* GET /sessions has not been asked
SessionsIdle ==
    /\ log_rows = <<>>
    /\ limit = 1
    /\ pages_served = <<>>

\* the two invocations of evaluate_response that are followed side by side
Invocations == {1, 2}

NoOutcome == [kind |-> "none", failure |-> "none", text |-> EmptyText,
              tokens |-> 0]

NoArgs == [user_prompt |-> <<>>, ai_response |-> <<>>]

NewFrame == [user_prompt |-> <<>>, ai_response |-> <<>>,
             evaluation_text |-> EmptyText, evaluation_tokens |-> 0]

\* no invocation has been entered
PairIdle ==
    /\ pair_pc = [p \in Invocations |-> "idle"]
    /\ pair_args = [p \in Invocations |-> NoArgs]
    /\ pair_outcome = [p \in Invocations |-> NoOutcome]
    /\ frames = [p \in Invocations |-> NewFrame]
    /\ pair_result = [p \in Invocations |-> NoItems]
    /\ stdout = <<>>

ChatInit ==
    /\ api_key \in BOOLEAN
    /\ chat_pc = "idle"
    /\ user_prompt = <<>>
    /\ ai_response = <<>>
    /\ total_tokens = 0
    /\ eval_pc = "not_called"
    /\ judge_calls = 0
    /\ call_result = "none"
    /\ evaluation_text = EmptyText
    /\ evaluation_tokens = 0
    /\ path = "none"
    /\ judgment_data = NoItems
    /\ trace = <<>>
    /\ chat_logs = <<>>
    /\ db_commit = "none"
    /\ http = NoAnswer

Init ==
    /\ ChatInit
    /\ PairIdle
    /\ SessionsIdle
    /\ MigrationIdle
    /\ GeneratorConstructed

\* POST /chat arrives; the API key check
ChatReceive(prompt) ==
    /\ chat_pc = "idle"
    /\ user_prompt' = prompt
    /\ IF api_key
       THEN /\ chat_pc' = "main_call"
            /\ http' = http
       ELSE /\ chat_pc' = "done"
            /\ http' = HTTP500
    /\ UNCHANGED <<api_key, ai_response, total_tokens, eval_pc, judge_calls, call_result,
                   evaluation_text, evaluation_tokens, path, judgment_data,
                   trace, chat_logs, db_commit>>
    /\ UNCHANGED outside_chat

\* variant: a failed main completion is swallowed and the judge is asked anyway
MainCompletionFailsThenEvaluates ==
    /\ chat_pc = "main_call"
    /\ chat_pc' = "evaluate"
    /\ eval_pc' = "entry"
    /\ UNCHANGED <<api_key, user_prompt, ai_response, total_tokens, http,
                   judge_calls, call_result, evaluation_text, evaluation_tokens, path,
                   judgment_data, trace, chat_logs, db_commit>>
    /\ UNCHANGED outside_chat

\* the main completion call raises: except Exception -> HTTP 500
MainCompletionFails ==
    /\ chat_pc = "main_call"
    /\ chat_pc' = "done"
    /\ http' = HTTP500
    /\ UNCHANGED <<api_key, user_prompt, ai_response, total_tokens, eval_pc,
                   judge_calls, call_result, evaluation_text, evaluation_tokens, path,
                   judgment_data, trace, chat_logs, db_commit>>
    /\ UNCHANGED outside_chat

\* the main completion returns; evaluate_response is entered
MainCompletionReturns(text, tokens) ==
    /\ chat_pc = "main_call"
    /\ ai_response' = text
    /\ total_tokens' = tokens
    /\ chat_pc' = "evaluate"
    /\ eval_pc' = "entry"
    /\ UNCHANGED <<api_key, user_prompt, judge_calls, call_result, evaluation_text,
                   evaluation_tokens, path, judgment_data, trace, chat_logs, db_commit,
                   http>>
    /\ UNCHANGED outside_chat

\* variant: a hit records the verdict but the function goes on to the call
EvalPrefilterFallsThrough ==
    /\ eval_pc = "entry"
    /\ IF PrefilterMatches(user_prompt, ai_response)
       THEN /\ trace' = Append(trace, "precheck")
            /\ judgment_data' =
                   PrefilterVerdict(MatchedPattern(user_prompt, ai_response))
            /\ path' = "prefilter"
            /\ eval_pc' = "try"
       ELSE /\ eval_pc' = "try"
            /\ UNCHANGED <<trace, judgment_data, path>>
    /\ UNCHANGED <<api_key, chat_pc, user_prompt, ai_response, total_tokens,
                   judge_calls, call_result, evaluation_text,
                   evaluation_tokens, chat_logs, db_commit, http>>
    /\ UNCHANGED outside_chat

\* the pre-check loop over fake_patterns
EvalPrefilter ==
    /\ eval_pc = "entry"
    /\ IF PrefilterMatches(user_prompt, ai_response)
       THEN /\ trace' = Append(trace, "precheck")
            /\ judgment_data' =
                   PrefilterVerdict(MatchedPattern(user_prompt, ai_response))
            /\ path' = "prefilter"
            /\ eval_pc' = "returned"
       ELSE /\ eval_pc' = "try"
            /\ UNCHANGED <<trace, judgment_data, path>>
    /\ UNCHANGED <<api_key, chat_pc, user_prompt, ai_response, total_tokens,
                   judge_calls, call_result, evaluation_text, evaluation_tokens, chat_logs, db_commit,
                   http>>
    /\ UNCHANGED outside_chat

\* variant: the call is repeated once
EvalIssueCallWithRetry ==
    /\ eval_pc = "try"
    /\ trace' = Append(trace, "starting")
    /\ judge_calls' = judge_calls + 2
    /\ eval_pc' = "awaiting"
    /\ UNCHANGED <<api_key, chat_pc, user_prompt, ai_response, total_tokens,
                   call_result,
                   evaluation_text, evaluation_tokens, path, judgment_data,
                   chat_logs, db_commit, http>>
    /\ UNCHANGED outside_chat

\* the outer try is entered and openai.ChatCompletion.create is called
EvalIssueCall ==
    /\ eval_pc = "try"
    /\ trace' = Append(trace, "starting")
    /\ judge_calls' = judge_calls + 1
    /\ eval_pc' = "awaiting"
    /\ UNCHANGED <<api_key, chat_pc, user_prompt, ai_response, total_tokens,
                   call_result,
                   evaluation_text, evaluation_tokens, path, judgment_data,
                   chat_logs, db_commit, http>>
    /\ UNCHANGED outside_chat

\* the except Exception clause of evaluate_response, for an exception raised
\* inside the outer try
OuterHandler(exc) ==
    IF CaughtByOuterHandler(exc)
    THEN /\ trace' = Append(trace, "evaluation_error")
         /\ judgment_data' = UnavailableVerdict
         /\ path' = "unavailable"
         /\ eval_pc' = "returned"
    ELSE /\ eval_pc' = "raised"
         /\ path' = "propagated"
         /\ UNCHANGED <<trace, judgment_data>>

\* the judge call raises
JudgeRaises(exc) ==
    /\ eval_pc = "awaiting"
    /\ call_result' = exc
    /\ OuterHandler(exc)
    /\ UNCHANGED <<api_key, chat_pc, user_prompt, ai_response, total_tokens,
                   judge_calls, evaluation_text, evaluation_tokens, chat_logs, db_commit,
                   http>>
    /\ UNCHANGED outside_chat

\* the judge call returns an object lacking choices or usage
JudgeRepliesMalformed(missing) ==
    /\ eval_pc = "awaiting"
    /\ call_result' = missing
    /\ LET exc == IF missing = "no_choices" THEN "IndexError"
                  ELSE "AttributeError"
       IN  IF CaughtByOuterHandler(exc)
           THEN /\ trace' = trace \o <<"raw_response", "evaluation_error">>
                /\ judgment_data' = UnavailableVerdict
                /\ path' = "unavailable"
                /\ eval_pc' = "returned"
           ELSE /\ trace' = Append(trace, "raw_response")
                /\ eval_pc' = "raised"
                /\ path' = "propagated"
                /\ UNCHANGED judgment_data
    /\ UNCHANGED <<api_key, chat_pc, user_prompt, ai_response, total_tokens,
                   judge_calls, evaluation_text, evaluation_tokens, chat_logs, db_commit,
                   http>>
    /\ UNCHANGED outside_chat

\* the judge call returns text and a token count
JudgeReplies(text, tokens) ==
    /\ eval_pc = "awaiting"
    /\ evaluation_text' = text
    /\ evaluation_tokens' = tokens
    /\ trace' = trace \o <<"raw_response", "text_received">>
    /\ eval_pc' = "received"
    /\ call_result' = "replied"
    /\ UNCHANGED <<api_key, chat_pc, user_prompt, ai_response, total_tokens,
                   judge_calls, path, judgment_data, chat_logs, db_commit, http>>
    /\ UNCHANGED outside_chat

\* variant: the high-score-with-suspicious-pattern branch also sets the flag
EvalParseFlagsSuspicious ==
    /\ eval_pc = "received"
    /\ LET r == ParseEvaluation(evaluation_text, evaluation_tokens)
           t == SuccessTraces(r.data, ai_response)
       IN  IF r.exc = "none"
           THEN /\ trace' = trace \o t
                /\ judgment_data' =
                       IF t[Len(t)] = "high_score_suspicious"
                       THEN [r.data EXCEPT !["hallucination_flag"] = PyBool(TRUE)]
                       ELSE r.data
                /\ path' = "parsed"
                /\ eval_pc' = "returned"
           ELSE IF CaughtByParseHandler(r.exc)
           THEN /\ trace' = Append(trace, "parse_error")
                /\ judgment_data' = ParseFailureVerdict(evaluation_tokens)
                /\ path' = "parse_failed"
                /\ eval_pc' = "returned"
           ELSE OuterHandler(r.exc)
    /\ UNCHANGED <<api_key, chat_pc, user_prompt, ai_response, total_tokens,
                   judge_calls, call_result, evaluation_text,
                   evaluation_tokens, chat_logs, db_commit, http>>
    /\ UNCHANGED outside_chat

\* the inner try with its handler, falling back to the outer handler
EvalParse ==
    /\ eval_pc = "received"
    /\ LET r == ParseEvaluation(evaluation_text, evaluation_tokens)
       IN  IF r.exc = "none"
           THEN /\ trace' = trace \o SuccessTraces(r.data, ai_response)
                /\ judgment_data' = r.data
                /\ path' = "parsed"
                /\ eval_pc' = "returned"
           ELSE IF CaughtByParseHandler(r.exc)
           THEN /\ trace' = Append(trace, "parse_error")
                /\ judgment_data' = ParseFailureVerdict(evaluation_tokens)
                /\ path' = "parse_failed"
                /\ eval_pc' = "returned"
           ELSE OuterHandler(r.exc)
    /\ UNCHANGED <<api_key, chat_pc, user_prompt, ai_response, total_tokens,
                   judge_calls, call_result, evaluation_text, evaluation_tokens, chat_logs, db_commit,
                   http>>
    /\ UNCHANGED outside_chat

\* after evaluate_response: build the row, commit, build the response
ChatPersistAndReply(commit_ok) ==
    /\ chat_pc = "evaluate"
    /\ eval_pc \in {"returned", "raised"}
    /\ chat_pc' = "done"
    /\ IF eval_pc = "raised"
       THEN /\ http' = HTTP500
            /\ UNCHANGED <<chat_logs, db_commit>>
       ELSE IF ~commit_ok
       THEN /\ http' = HTTP500
            /\ db_commit' = "failed"
            /\ chat_logs' = chat_logs
       ELSE /\ db_commit' = "ok"
            /\ chat_logs' = Append(chat_logs,
                  ChatLogRow(user_prompt, ai_response, total_tokens,
                             judgment_data))
            /\ http' = IF JudgmentMetadataValid(judgment_data)
                       THEN HTTP200(judgment_data)
                       ELSE HTTP500
    /\ UNCHANGED <<api_key, user_prompt, ai_response, total_tokens, eval_pc,
                   judge_calls, call_result, evaluation_text, evaluation_tokens, path,
                   judgment_data, trace>>
    /\ UNCHANGED outside_chat

Next ==
    \/ \E prompt \in PromptTexts : ChatReceive(prompt)
    \/ MainCompletionFails
    \/ \E text \in ResponseTexts, tokens \in MainTokenCounts :
           MainCompletionReturns(text, tokens)
    \/ EvalPrefilter
    \/ EvalIssueCall
    \/ \E exc \in CallExceptions : JudgeRaises(exc)
    \/ \E missing \in MalformedReplies : JudgeRepliesMalformed(missing)
    \/ \E text \in JudgeTexts, tokens \in JudgeTokenCounts :
           JudgeReplies(text, tokens)
    \/ EvalParse
    \/ \E commit_ok \in BOOLEAN : ChatPersistAndReply(commit_ok)

Spec == Init /\ [][Next]_vars

-----------------------------------------------------------------------------
(* Two invocations of evaluate_response, their steps interleaved *)

PairPrompts == { <<"x", "y", "z">>, <<"L", "e">> }

PairResponses == { <<"C", "o", "r", "p">>,
                   <<"C", "i", "s", "c", "o", " ", "9", "0", "0", "0">> }

PairJudgeTexts ==
    { GarbageText,
      JsonText(JScalarDoc(JInt(5))),
      JsonText(JObject(ObjectMembers(JInt(5), JString("Accurate and complete"),
                                     JFalse, <<Absent, Absent>>))),
      JsonText(JObject(ObjectMembers(JInt(2), JString("Accurate and complete"),
                                     JTrue, <<JInt(9), JTrue>>))) }

PairFailures == {"Timeout", "no_usage"}

\* variant: the locals are module-level variables all invocations share
LocalShared(p) == 1

\* the frame holding the locals of invocation p: every call has its own
Local(p) == p

\* variant: evaluation_tokens is a running total over all invocations
FrameTokensRunningTotal(p) ==
    frames[1].evaluation_tokens + frames[2].evaluation_tokens

\* the local evaluation_tokens as read after the call
FrameTokens(p) == frames[Local(p)].evaluation_tokens

\* print(...) by invocation p
Prints(p, tags) == [i \in 1..Len(tags) |-> <<p, tags[i]>>]

\* evaluate_response(user_prompt, ai_response) is called
PairEnter(p, prompt, response) ==
    /\ pair_pc[p] = "idle"
    /\ pair_pc' = [pair_pc EXCEPT ![p] = "entry"]
    /\ pair_args' = [pair_args EXCEPT
                        ![p] = [user_prompt |-> prompt, ai_response |-> response]]
    /\ frames' = [frames EXCEPT
                     ![Local(p)] = [@ EXCEPT !.user_prompt = prompt,
                                             !.ai_response = response]]
    /\ UNCHANGED <<pair_outcome, pair_result, stdout>>
    /\ UNCHANGED outside_pair

\* the pre-check loop over fake_patterns
PairPrefilter(p) ==
    /\ pair_pc[p] = "entry"
    /\ LET f == frames[Local(p)]
       IN  IF PrefilterMatches(f.user_prompt, f.ai_response)
           THEN /\ stdout' = stdout \o Prints(p, <<"precheck">>)
                /\ pair_result' =
                       [pair_result EXCEPT ![p] =
                           PrefilterVerdict(
                               MatchedPattern(f.user_prompt, f.ai_response))]
                /\ pair_pc' = [pair_pc EXCEPT ![p] = "returned"]
           ELSE /\ pair_pc' = [pair_pc EXCEPT ![p] = "try"]
                /\ UNCHANGED <<pair_result, stdout>>
    /\ UNCHANGED <<pair_args, pair_outcome, frames>>
    /\ UNCHANGED outside_pair

\* the outer try is entered and openai.ChatCompletion.create is called
PairIssueCall(p) ==
    /\ pair_pc[p] = "try"
    /\ stdout' = stdout \o Prints(p, <<"starting">>)
    /\ pair_pc' = [pair_pc EXCEPT ![p] = "awaiting"]
    /\ UNCHANGED <<pair_args, pair_outcome, frames, pair_result>>
    /\ UNCHANGED outside_pair

\* the judge call raises, or returns an object lacking usage
PairJudgeFails(p, failure) ==
    /\ pair_pc[p] = "awaiting"
    /\ pair_outcome' = [pair_outcome EXCEPT
                           ![p] = [kind |-> "failed", failure |-> failure,
                                   text |-> EmptyText, tokens |-> 0]]
    /\ LET exc  == CASE failure = "no_choices" -> "IndexError"
                     [] failure = "no_usage"   -> "AttributeError"
                     [] OTHER                  -> failure
           seen == IF failure \in MalformedReplies
                   THEN <<"raw_response">> ELSE <<>>
       IN  IF CaughtByOuterHandler(exc)
           THEN /\ stdout' = stdout \o Prints(p, seen \o <<"evaluation_error">>)
                /\ pair_result' = [pair_result EXCEPT ![p] = UnavailableVerdict]
                /\ pair_pc' = [pair_pc EXCEPT ![p] = "returned"]
           ELSE /\ stdout' = stdout \o Prints(p, seen)
                /\ pair_pc' = [pair_pc EXCEPT ![p] = "raised"]
                /\ UNCHANGED pair_result
    /\ UNCHANGED <<pair_args, frames>>
    /\ UNCHANGED outside_pair

\* the judge call returns text and a token count
PairJudgeReplies(p, text, tokens) ==
    /\ pair_pc[p] = "awaiting"
    /\ pair_outcome' = [pair_outcome EXCEPT
                           ![p] = [kind |-> "replied", failure |-> "none",
                                   text |-> text, tokens |-> tokens]]
    /\ frames' = [frames EXCEPT
                     ![Local(p)] = [@ EXCEPT !.evaluation_text = text,
                                             !.evaluation_tokens = tokens]]
    /\ stdout' = stdout \o Prints(p, <<"raw_response", "text_received">>)
    /\ pair_pc' = [pair_pc EXCEPT ![p] = "received"]
    /\ UNCHANGED <<pair_args, pair_result>>
    /\ UNCHANGED outside_pair

\* the inner try with its handler, falling back to the outer handler
PairParse(p) ==
    /\ pair_pc[p] = "received"
    /\ LET f == frames[Local(p)]
           r == ParseEvaluation(f.evaluation_text, FrameTokens(p))
       IN  IF r.exc = "none"
           THEN /\ stdout' = stdout \o
                                 Prints(p, SuccessTraces(r.data, f.ai_response))
                /\ pair_result' = [pair_result EXCEPT ![p] = r.data]
                /\ pair_pc' = [pair_pc EXCEPT ![p] = "returned"]
           ELSE IF CaughtByParseHandler(r.exc)
           THEN /\ stdout' = stdout \o Prints(p, <<"parse_error">>)
                /\ pair_result' =
                       [pair_result EXCEPT
                           ![p] = ParseFailureVerdict(FrameTokens(p))]
                /\ pair_pc' = [pair_pc EXCEPT ![p] = "returned"]
           ELSE IF CaughtByOuterHandler(r.exc)
           THEN /\ stdout' = stdout \o Prints(p, <<"evaluation_error">>)
                /\ pair_result' = [pair_result EXCEPT ![p] = UnavailableVerdict]
                /\ pair_pc' = [pair_pc EXCEPT ![p] = "returned"]
           ELSE /\ pair_pc' = [pair_pc EXCEPT ![p] = "raised"]
                /\ UNCHANGED <<pair_result, stdout>>
    /\ UNCHANGED <<pair_args, pair_outcome, frames>>
    /\ UNCHANGED outside_pair

InitPair ==
    /\ ChatInit
    /\ api_key
    /\ PairIdle
    /\ SessionsIdle
    /\ MigrationIdle
    /\ GeneratorConstructed

NextPair ==
    \/ \E p \in Invocations, prompt \in PairPrompts, response \in PairResponses :
           PairEnter(p, prompt, response)
    \/ \E p \in Invocations : PairPrefilter(p)
    \/ \E p \in Invocations : PairIssueCall(p)
    \/ \E p \in Invocations, failure \in PairFailures : PairJudgeFails(p, failure)
    \/ \E p \in Invocations, text \in PairJudgeTexts, tokens \in JudgeTokenCounts :
           PairJudgeReplies(p, text, tokens)
    \/ \E p \in Invocations : PairParse(p)

SpecPair == InitPair /\ [][NextPair]_vars

-----------------------------------------------------------------------------
(* GET /sessions: one client paging through an unchanged chat_logs table *)

Min(a, b) == IF a < b THEN a ELSE b

RECURSIVE Reverse(_)
\* list.reverse()
Reverse(seq) ==
    IF seq = <<>> THEN <<>>
    ELSE Append(Reverse(Tail(seq)), Head(seq))

\* db.query(ChatLog).count()
CountRows == Len(log_rows)

\* variant: the empty table is not treated apart
TotalPagesNoEmptyCase(total_count, size) ==
    (total_count + size - 1) \div size

\* ceil(total_count / limit) if total_count > 0 else 1; the float quotient is
\* exact enough for every count a table can hold
TotalPages(total_count, size) ==
    IF total_count > 0 THEN (total_count + size - 1) \div size ELSE 1

\* the orders ORDER BY created_at DESC may deliver the rows in: any order of
\* all rows with no later row before an earlier one; rows with equal
\* created_at come in an order the query does not fix
DescendingOrders ==
    { order \in [1..CountRows -> 1..CountRows] :
        /\ \A i, j \in 1..CountRows : i # j => order[i] # order[j]
        /\ \A i, j \in 1..CountRows :
               i < j => log_rows[order[i]] >= log_rows[order[j]] }

\* .offset(offset).limit(limit).all() on the ordered rows
OffsetLimit(order, offset, size) ==
    IF offset >= Len(order) THEN <<>>
    ELSE SubSeq(order, offset + 1, Min(offset + size, Len(order)))

\* SessionData built from one row (the row number stands for the row)
SessionData(row) == [row |-> row, ts |-> log_rows[row]]

\* the PaginatedSessionsResponse for one request
PaginatedSessionsResponse(page, size, order) ==
    LET total_count == CountRows
        total_pages == TotalPages(total_count, size)
        offset      == (page - 1) * size
        chat_rows   == OffsetLimit(order, offset, size)
        sessions    == [i \in 1..Len(chat_rows) |-> SessionData(chat_rows[i])]
    IN  [status |-> 200,
         sessions |-> Reverse(sessions),
         total_count |-> total_count,
         total_pages |-> total_pages,
         page |-> page,
         limit |-> size,
         has_next |-> page < total_pages,
         has_previous |-> page > 1]

\* except Exception: HTTPException(status_code=500)
SessionsError(page, size) ==
    [status |-> 500, sessions |-> <<>>, total_count |-> 0, total_pages |-> 0,
     page |-> page, limit |-> size, has_next |-> FALSE, has_previous |-> FALSE]

Served(page, response) ==
    [q \in (DOMAIN pages_served) \cup {page} |->
        IF q = page THEN response ELSE pages_served[q]]

\* GET /sessions?page=..&limit=.. answers
GetChatSessions(page, order) ==
    /\ pages_served' =
           Served(page, PaginatedSessionsResponse(page, limit, order))
    /\ UNCHANGED <<log_rows, limit>>
    /\ UNCHANGED outside_sessions

\* a query of the request raises
GetChatSessionsFails(page) ==
    /\ pages_served' = Served(page, SessionsError(page, limit))
    /\ UNCHANGED <<log_rows, limit>>
    /\ UNCHANGED outside_sessions

InitSessions ==
    /\ ChatInit
    /\ api_key
    /\ PairIdle
    /\ log_rows \in UNION { [1..n -> 1..MaxStamp] : n \in 0..MaxRecords }
    /\ limit \in 1..MaxLimit
    /\ pages_served = <<>>
    /\ MigrationIdle
    /\ GeneratorConstructed

NextSessions ==
    \/ \E page \in 1..MaxPage, order \in DescendingOrders :
           GetChatSessions(page, order)
    \/ \E page \in 1..MaxPage : GetChatSessionsFails(page)

SpecSessions == InitSessions /\ [][NextSessions]_vars

-----------------------------------------------------------------------------
(* run_migration: the script run up to MaxRuns times against one database *)

\* variant: four of the five columns are taken as enough
AllJudgmentFieldsExistFourEnough(existing) == Cardinality(existing) >= 4

\* len(existing_columns) == 5
AllJudgmentFieldsExist(existing) == Cardinality(existing) = 5

\* variant: a rollback leaves the columns added so far in the table
RolledBackKeepsAdded(cols, added) == cols \cup added

\* trans.rollback(): the ALTER TABLE statements of the transaction are undone
RolledBack(cols, added) == cols

\* variant: the statement rebuilds the table with the judgment columns only
AddColumnRebuilds(cols, c) == (cols \cap JudgmentColumnSet) \cup {c}

\* ALTER TABLE chat_logs ADD COLUMN c
AddColumn(cols, c) == cols \cup {c}

\* return value of a run, and the end of the with block
MigReturn(value, failed) ==
    /\ mig_pc' = "returned"
    /\ run_result' = value
    /\ failed_at' = failed

\* the script is started: create_engine, engine.connect(), SELECT 1
MigConnect(ok) ==
    /\ mig_pc = "idle"
    /\ runs < MaxRuns
    /\ runs' = runs + 1
    /\ prev_result' = run_result
    /\ columns_at_start' = columns
    /\ alters_in_run' = 0
    /\ existing_columns' = {}
    /\ alter_index' = 1
    /\ IF ok
       THEN /\ mig_pc' = "table_check"
            /\ run_result' = "none"
            /\ failed_at' = "none"
       ELSE MigReturn("False", "connect")
    /\ UNCHANGED <<table_exists, columns, table_rows, pending, columns_at_first>>
    /\ UNCHANGED outside_migration

\* SELECT EXISTS (... table_name = 'chat_logs')
MigTableCheck(ok) ==
    /\ mig_pc = "table_check"
    /\ IF ~ok THEN MigReturn("False", "table_check")
       ELSE IF ~table_exists THEN MigReturn("False", "none")
       ELSE /\ mig_pc' = "column_check"
            /\ UNCHANGED <<run_result, failed_at>>
    /\ UNCHANGED <<table_exists, columns, table_rows, pending, existing_columns,
                   alter_index, runs, columns_at_first, columns_at_start,
                   alters_in_run, prev_result>>
    /\ UNCHANGED outside_migration

\* the column query, and the early return when all five are there
MigColumnCheck(ok) ==
    /\ mig_pc = "column_check"
    /\ IF ~ok
       THEN /\ MigReturn("False", "column_check")
            /\ UNCHANGED existing_columns
       ELSE LET found == columns \cap JudgmentColumnSet
            IN  /\ existing_columns' = found
                /\ IF AllJudgmentFieldsExist(found)
                   THEN MigReturn("True", "none")
                   ELSE /\ mig_pc' = "begin"
                        /\ UNCHANGED <<run_result, failed_at>>
    /\ UNCHANGED <<table_exists, columns, table_rows, pending, alter_index, runs,
                   columns_at_first, columns_at_start, alters_in_run,
                   prev_result>>
    /\ UNCHANGED outside_migration

\* trans = connection.begin()
MigBegin(ok) ==
    /\ mig_pc = "begin"
    /\ IF ok
       THEN /\ mig_pc' = "alter"
            /\ UNCHANGED <<run_result, failed_at>>
       ELSE MigReturn("False", "begin")
    /\ UNCHANGED <<table_exists, columns, table_rows, pending, existing_columns,
                   alter_index, runs, columns_at_first, columns_at_start,
                   alters_in_run, prev_result>>
    /\ UNCHANGED outside_migration

\* one of the five blocks: if the column is not in existing_columns, ALTER
\* TABLE ... ADD COLUMN; a failing statement goes to the except clause, which
\* rolls back and returns False
MigAlterStep(ok) ==
    /\ mig_pc = "alter"
    /\ LET c == judgment_columns[alter_index]
       IN  IF c \in existing_columns
           THEN /\ UNCHANGED <<columns, pending, alters_in_run, run_result,
                               failed_at>>
                /\ alter_index' = alter_index + 1
                /\ mig_pc' = IF alter_index = Len(judgment_columns)
                             THEN "commit" ELSE "alter"
           ELSE IF ok /\ c \notin columns \cup pending
           THEN /\ pending' = AddColumn(columns \cup pending, c) \ columns
                /\ columns' = columns \cap AddColumn(columns \cup pending, c)
                /\ alters_in_run' = alters_in_run + 1
                /\ alter_index' = alter_index + 1
                /\ mig_pc' = IF alter_index = Len(judgment_columns)
                             THEN "commit" ELSE "alter"
                /\ UNCHANGED <<run_result, failed_at>>
           ELSE /\ columns' = RolledBack(columns, pending)
                /\ pending' = {}
                /\ MigReturn("False", "alter")
                /\ UNCHANGED <<alter_index, alters_in_run>>
    /\ UNCHANGED <<table_exists, table_rows, existing_columns, runs,
                   columns_at_first, columns_at_start, prev_result>>
    /\ UNCHANGED outside_migration

\* trans.commit()
MigCommit(ok) ==
    /\ mig_pc = "commit"
    /\ IF ok
       THEN /\ columns' = columns \cup pending
            /\ pending' = {}
            /\ mig_pc' = "verify"
            /\ UNCHANGED <<run_result, failed_at>>
       ELSE /\ columns' = RolledBack(columns, pending)
            /\ pending' = {}
            /\ MigReturn("False", "commit")
    /\ UNCHANGED <<table_exists, table_rows, existing_columns, alter_index, runs,
                   columns_at_first, columns_at_start, alters_in_run,
                   prev_result>>
    /\ UNCHANGED outside_migration

\* the verification query after the commit, and return True
MigVerify(ok) ==
    /\ mig_pc = "verify"
    /\ IF ok THEN MigReturn("True", "none")
       ELSE MigReturn("False", "verify")
    /\ UNCHANGED <<table_exists, columns, table_rows, pending, existing_columns,
                   alter_index, runs, columns_at_first, columns_at_start,
                   alters_in_run, prev_result>>
    /\ UNCHANGED outside_migration

\* the process has ended; the script can be started again
MigExit ==
    /\ mig_pc = "returned"
    /\ runs < MaxRuns
    /\ mig_pc' = "idle"
    /\ UNCHANGED <<table_exists, columns, table_rows, pending, existing_columns,
                   alter_index, run_result, runs, columns_at_first,
                   columns_at_start, alters_in_run, failed_at, prev_result>>
    /\ UNCHANGED outside_migration

InitMigration ==
    /\ ChatInit
    /\ api_key
    /\ PairIdle
    /\ SessionsIdle
    /\ GeneratorConstructed
    /\ \E exists \in BOOLEAN, present \in SUBSET JudgmentColumnSet,
          rows \in {0, 2} :
           MigrationNotStarted(exists,
                               IF exists THEN base_columns \cup present ELSE {},
                               IF exists THEN rows ELSE 0)

NextMigration ==
    \/ \E ok \in BOOLEAN : MigConnect(ok)
    \/ \E ok \in BOOLEAN : MigTableCheck(ok)
    \/ \E ok \in BOOLEAN : MigColumnCheck(ok)
    \/ \E ok \in BOOLEAN : MigBegin(ok)
    \/ \E ok \in BOOLEAN : MigAlterStep(ok)
    \/ \E ok \in BOOLEAN : MigCommit(ok)
    \/ \E ok \in BOOLEAN : MigVerify(ok)
    \/ MigExit

SpecMigration == InitMigration /\ [][NextMigration]_vars

-----------------------------------------------------------------------------
(* ChatTestDataGenerator.generate_test_data, with SIGINT arriving at any time *)

\* what _send_chat_request returns: failure, or success with the answer's
\* sentiment (above 0.3, below -0.3, in between, or no such key) and tokens
\* (0 stands for an answer without the key)
GenResults ==
    { [success |-> FALSE, sentiment |-> "absent", tokens |-> 0] }
    \cup { [success |-> TRUE, sentiment |-> sn, tokens |-> tk] :
               sn \in {"positive", "negative", "neutral", "absent"},
               tk \in {0, 12} }

\* variant: a failed request is counted as sent twice
UpdateStatsCountsFailureTwice(st, result) ==
    IF result.success
    THEN [st EXCEPT
            !.total_sent = @ + 1,
            !.successful = @ + 1,
            !.total_tokens = @ + result.tokens,
            !.positive_responses =
                IF result.sentiment = "positive" THEN @ + 1 ELSE @,
            !.negative_responses =
                IF result.sentiment = "negative" THEN @ + 1 ELSE @,
            !.neutral_responses =
                IF result.sentiment = "neutral" THEN @ + 1 ELSE @]
    ELSE [st EXCEPT !.total_sent = @ + 2, !.failed = @ + 1]

\* _update_stats
UpdateStats(st, result) ==
    IF result.success
    THEN [st EXCEPT
            !.total_sent = @ + 1,
            !.successful = @ + 1,
            !.total_tokens = @ + result.tokens,
            !.positive_responses =
                IF result.sentiment = "positive" THEN @ + 1 ELSE @,
            !.negative_responses =
                IF result.sentiment = "negative" THEN @ + 1 ELSE @,
            !.neutral_responses =
                IF result.sentiment = "neutral" THEN @ + 1 ELSE @]
    ELSE [st EXCEPT !.total_sent = @ + 1, !.failed = @ + 1]

\* generate_test_data(count) is called: the banner, start_time
GenStart(count) ==
    /\ gen_pc = "constructed"
    /\ gen_count' = count
    /\ start_time' = TRUE
    /\ gen_pc' = "set_running"
    /\ UNCHANGED <<running, stats, gen_i, signalled, started_after_signal,
                   gen_outcome>>
    /\ UNCHANGED outside_generator

\* self.running = True, and the for loop is entered
GenSetRunning ==
    /\ gen_pc = "set_running"
    /\ running' = TRUE
    /\ gen_i' = 1
    /\ gen_pc' = "loop_head"
    /\ UNCHANGED <<stats, start_time, gen_count, signalled,
                   started_after_signal, gen_outcome>>
    /\ UNCHANGED outside_generator

\* SIGINT is delivered: _signal_handler sets self.running = False; the
\* interrupted call (request or sleep) is resumed
GenSignal ==
    /\ gen_pc # "done"
    /\ running' = FALSE
    /\ signalled' = TRUE
    /\ UNCHANGED <<gen_pc, stats, start_time, gen_i, gen_count,
                   started_after_signal, gen_outcome>>
    /\ UNCHANGED outside_generator

\* top of an iteration: the loop ends, breaks, or a request is sent
GenLoopHead ==
    /\ gen_pc = "loop_head"
    /\ IF gen_i > gen_count \/ ~running
       THEN /\ gen_pc' = "final"
            /\ UNCHANGED started_after_signal
       ELSE /\ gen_pc' = "requesting"
            /\ started_after_signal' =
                   IF signalled THEN started_after_signal + 1
                   ELSE started_after_signal
    /\ UNCHANGED <<running, stats, start_time, gen_i, gen_count, signalled,
                   gen_outcome>>
    /\ UNCHANGED outside_generator

\* the request returns; statistics, progress line, and whether to sleep
GenRequestReturns(result) ==
    /\ gen_pc = "requesting"
    /\ stats' = UpdateStats(stats, result)
    /\ IF gen_i < gen_count /\ running
       THEN /\ gen_pc' = "sleeping"
            /\ UNCHANGED gen_i
       ELSE /\ gen_pc' = "loop_head"
            /\ gen_i' = gen_i + 1
    /\ UNCHANGED <<running, start_time, gen_count, signalled,
                   started_after_signal, gen_outcome>>
    /\ UNCHANGED outside_generator

\* time.sleep(self.delay) returns
GenSleepEnds ==
    /\ gen_pc = "sleeping"
    /\ gen_pc' = "loop_head"
    /\ gen_i' = gen_i + 1
    /\ UNCHANGED <<running, stats, start_time, gen_count, signalled,
                   started_after_signal, gen_outcome>>
    /\ UNCHANGED outside_generator

\* _print_final_stats: the success rate divides by total_sent
GenPrintFinalStats ==
    /\ gen_pc = "final"
    /\ gen_pc' = "done"
    /\ gen_outcome' = IF stats.total_sent = 0 THEN "ZeroDivisionError"
                      ELSE "printed"
    /\ UNCHANGED <<running, stats, start_time, gen_i, gen_count, signalled,
                   started_after_signal>>
    /\ UNCHANGED outside_generator

InitGenerator ==
    /\ ChatInit
    /\ api_key
    /\ PairIdle
    /\ SessionsIdle
    /\ MigrationIdle
    /\ GeneratorConstructed

NextGenerator ==
    \/ \E count \in 1..MaxCount : GenStart(count)
    \/ GenSetRunning
    \/ GenSignal
    \/ GenLoopHead
    \/ \E result \in GenResults : GenRequestReturns(result)
    \/ GenSleepEnds
    \/ GenPrintFinalStats

SpecGenerator == InitGenerator /\ [][NextGenerator]_vars

-----------------------------------------------------------------------------
(* Properties *)

\* evaluate_response has returned a dict
Returned == eval_pc = "returned"

\* evaluate_response has ended, by return or by an exception
Ended == eval_pc \in {"returned", "raised"}

\* some denylist pattern occurs in the text, in any letter case
DenylistedIn(text) ==
    LET low == Lower(text)
    IN  \E i \in 1..Len(fake_patterns) : IsSubstring(lower_patterns[i], low)

\* C1: when a denylist pattern occurs, in any letter case, in the prompt or
\* in the response, evaluate_response returns score 1, hallucination_flag
\* true and tokens 0 straight from the pre-check, and the judge call is never
\* issued in that invocation.
C1_DenylistShortCircuits ==
    (/\ eval_pc \notin {"not_called", "entry"}
     /\ DenylistedIn(user_prompt) \/ DenylistedIn(ai_response))
    => /\ Returned
       /\ judgment_data["score"] = PyInt(1)
       /\ judgment_data["hallucination_flag"] = PyBool(TRUE)
       /\ judgment_data["tokens"] = PyInt(0)
       /\ judge_calls = 0
       /\ call_result = "none"

\* the prompt is exactly a pattern, in mixed case, and the response names a
\* real brand and no pattern
C1_Witness ==
    /\ Returned
    /\ path = "prefilter"
    /\ user_prompt = <<"L", "e", "t", "O", "R", "T">>
    /\ ai_response = <<"C", "i", "s", "c", "o", " ", "9", "0", "0", "0">>
    /\ ~DenylistedIn(ai_response)

\* C2: when no denylist pattern matches, an ended invocation has issued the
\* judge call exactly once, on the success path, after a parse failure and
\* after a call failure alike; and no invocation ever issues more than one.
C2_JudgeCalledExactlyOnce ==
    /\ judge_calls <= 1
    /\ (Ended /\ ~PrefilterMatches(user_prompt, ai_response)) => judge_calls = 1
    /\ eval_pc \in {"awaiting", "received"} => judge_calls = 1

C2_Witness ==
    /\ Returned
    /\ path = "parse_failed"
    /\ ~PrefilterMatches(user_prompt, ai_response)
    /\ judge_calls = 1

\* the judge's text is a JSON object with an integer score in 1..5, a
\* rationale and a boolean hallucination_flag
WellFormedJudgeText(text) ==
    /\ text.form = "json"
    /\ text.doc.j = "object"
    /\ required_fields \subseteq DOMAIN text.doc.members
    /\ text.doc.members["score"].j = "number"
    /\ ~text.doc.members["score"].frac
    /\ text.doc.members["score"].n \in 1..5
    /\ text.doc.members["hallucination_flag"].j \in {"true", "false"}

\* the Python value a JSON string or null stands for
RationaleOf(d) == IF d.j = "string" THEN PyStr(d.s) ELSE PyNone

\* C3: when no pattern matches and the judge replies with a well-formed JSON
\* object, the returned score, rationale and hallucination_flag are the
\* parsed values and tokens is the token count the judge call reported.
C3_WellFormedVerdictMirrorsJudge ==
    (/\ Returned
     /\ call_result = "replied"
     /\ WellFormedJudgeText(evaluation_text))
    => LET m == evaluation_text.doc.members
       IN  /\ judgment_data["score"] = PyInt(m["score"].n)
           /\ judgment_data["rationale"] = RationaleOf(m["rationale"])
           /\ judgment_data["hallucination_flag"] =
                  PyBool(m["hallucination_flag"].j = "true")
           /\ judgment_data["tokens"] = PyInt(evaluation_tokens)

\* score 5, flag false, 120 reported tokens
C3_Witness ==
    /\ Returned
    /\ call_result = "replied"
    /\ WellFormedJudgeText(evaluation_text)
    /\ evaluation_text.doc.members["score"].n = 5
    /\ evaluation_text.doc.members["hallucination_flag"].j = "false"
    /\ evaluation_tokens = 120
    /\ judgment_data["tokens"] = PyInt(120)

\* the judge's text is empty, blank, no JSON, or a JSON object that lacks a
\* required field, whose score is no integer in 1..5 or whose
\* hallucination_flag is no boolean
RejectableJudgeText(text) ==
    \/ text.form \in {"empty", "blank", "garbage"}
    \/ /\ text.form = "json"
       /\ text.doc.j = "object"
       /\ IF required_fields \subseteq DOMAIN text.doc.members
          THEN LET m == text.doc.members
               IN  \/ ~(m["score"].j = "number" /\ ~m["score"].frac
                        /\ m["score"].n \in 1..5)
                   \/ m["hallucination_flag"].j \notin {"true", "false"}
          ELSE TRUE

\* C4: when the judge call returns but its text is empty or blank, is not
\* JSON, is a JSON object missing a required field, has a score that is not
\* an integer in 1..5 (out of range, float, string, boolean, null) or a
\* hallucination_flag that is not a boolean, the verdict is score 3,
\* hallucination_flag false, rationale "Evaluation parsing failed - assigned
\* neutral score".
C4_RejectedTextGivesParseFailureDefault ==
    (/\ Returned
     /\ call_result = "replied"
     /\ RejectableJudgeText(evaluation_text))
    => /\ judgment_data["score"] = PyInt(3)
       /\ judgment_data["hallucination_flag"] = PyBool(FALSE)
       /\ judgment_data["rationale"] =
              PyStr("Evaluation parsing failed - assigned neutral score")

\* the judge call itself failed: it raised, or its reply lacks choices or usage
CallFailed == call_result \in CallExceptions \cup MalformedReplies

\* C5: when the judge call itself fails (network error, timeout, provider
\* error, reply without choices or usage), the verdict is exactly score 3,
\* hallucination_flag false, rationale "Evaluation service unavailable -
\* assigned neutral score", tokens 0.
C5_CallFailureGivesUnavailableDefault ==
    (Ended /\ CallFailed)
    => /\ Returned
       /\ judgment_data =
              [score |-> PyInt(3),
               rationale |-> PyStr("Evaluation service unavailable - assigned neutral score"),
               hallucination_flag |-> PyBool(FALSE),
               tokens |-> PyInt(0)]

\* the judge call timed out and the invocation has returned
C5_Witness ==
    /\ Returned
    /\ call_result = "Timeout"
    /\ judgment_data["tokens"] = PyInt(0)

\* C6: for every prompt, response and judge outcome evaluate_response ends
\* by returning a dict with the four verdict keys; no exception leaves it.
C6_NeverPropagates ==
    /\ eval_pc # "raised"
    /\ path # "propagated"
    /\ Returned =>
           {"score", "rationale", "hallucination_flag", "tokens"}
               \subseteq DOMAIN judgment_data

\* an exception the parse handler does not name (TypeError on a JSON number)
\* was raised inside the inner try and ended in a returned verdict
C6_Witness ==
    /\ Returned
    /\ call_result = "replied"
    /\ ParseEvaluation(evaluation_text, evaluation_tokens).exc = "TypeError"

\* C7: in every returned verdict score is an integer with 1 <= score <= 5.
C7_ScoreIsIntegerInRange ==
    Returned =>
        /\ judgment_data["score"].t = "int"
        /\ judgment_data["score"].n \in 1..5

\* C8: in every returned verdict rationale is a non-empty text.
C8_RationaleIsNonEmptyText ==
    Returned =>
        /\ judgment_data["rationale"].t = "str"
        /\ judgment_data["rationale"].s # ""

\* C9: when the judge call reported a token count and its output was then
\* rejected, the neutral verdict's tokens equal the reported count.
C9_RejectedOutputKeepsReportedTokens ==
    (/\ Returned
     /\ call_result = "replied"
     /\ path # "parsed")
    => judgment_data["tokens"] = PyInt(evaluation_tokens)

\* C10: in /chat, when the main completion succeeded and the commit works,
\* one row is committed and the answer is a success, however grading went;
\* when the judge call failed or its text was malformed the row carries the
\* neutral verdict (score 3, hallucination_flag false).
C10_ChatLogsWhateverGradingDid ==
    (/\ chat_pc = "done"
     /\ eval_pc # "not_called"
     /\ db_commit # "failed")
    => /\ Len(chat_logs) = 1
       /\ http.status = 200
       /\ (CallFailed \/ (call_result = "replied"
                          /\ ~WellFormedJudgeText(evaluation_text)))
          => /\ chat_logs[1].judgment_score = PyInt(3)
             /\ chat_logs[1].hallucination_flag = PyBool(FALSE)

\* the pre-check has run
PrefilterDone == eval_pc \notin {"not_called", "entry"}

\* C14 as stated: the pre-check matches exactly when some pattern is a
\* substring of the lower-cased concatenation of prompt and response.
C14_MatchesIffInPlainConcatenation ==
    PrefilterDone =>
        ((path = "prefilter") <=> DenylistedIn(user_prompt \o ai_response))

\* C14 as amended: the pre-check matches exactly when some pattern is a
\* substring of the lower-cased text prompt + " " + response, one space being
\* inserted between the two; a pattern straddling the boundary matches only
\* if it has that space there.
C14_MatchesIffInSpaceJoinedText ==
    PrefilterDone =>
        ((path = "prefilter")
            <=> DenylistedIn(user_prompt \o <<" ">> \o ai_response))

\* a match that exists only across the boundary, through the inserted space
C14_Witness ==
    /\ path = "prefilter"
    /\ ~DenylistedIn(user_prompt)
    /\ ~DenylistedIn(ai_response)
    /\ ~DenylistedIn(user_prompt \o ai_response)

\* pattern i occurs in the lower-cased space-joined text
OccursInJoined(i) ==
    IsSubstring(lower_patterns[i], Lower(user_prompt \o <<" ">> \o ai_response))

\* position (0-based) of the first occurrence of pattern i in that text
FirstPosition(i) ==
    LET text == Lower(user_prompt \o <<" ">> \o ai_response)
        pat  == lower_patterns[i]
    IN  CHOOSE q \in 0..Len(text) :
            /\ \A j \in 1..Len(pat) : q + j <= Len(text) /\ text[q + j] = pat[j]
            /\ \A r \in 0..(q - 1) :
                   \E j \in 1..Len(pat) : text[r + j] # pat[j]

\* C15: when several patterns occur, the pre-check verdict's rationale names
\* exactly one, the first in the order of the denylist, and says that the
\* device does not exist.
C15_RationaleNamesFirstListedPattern ==
    path = "prefilter" =>
        \E i \in 1..Len(fake_patterns) :
            /\ OccursInJoined(i)
            /\ \A k \in 1..(i - 1) : ~OccursInJoined(k)
            /\ judgment_data["rationale"] =
                   PyStr("Response contains references to non-existent device '"
                         \o fake_patterns[i].name
                         \o "'. This appears to be a fabricated product name that doesn't exist in reality.")

\* 'xyz corp' occurs earlier in the text, 'letort' earlier in the list
C15_Witness ==
    /\ path = "prefilter"
    /\ OccursInJoined(1)
    /\ OccursInJoined(4)
    /\ FirstPosition(4) < FirstPosition(1)

Printed(tag) == \E i \in 1..Len(trace) : trace[i] = tag

\* C13: the diagnostic traces never change the returned verdict: whichever
\* of them were printed, the dict returned after a successful validation is
\* the parsed dict with tokens set, and the dict returned from a handler or
\* the pre-check is that path's fixed dict.
C13_TracesLeaveVerdictAlone ==
    Returned =>
        /\ Printed("parsed") =>
               judgment_data =
                   WithTokens(json_loads(evaluation_text.doc).items,
                              evaluation_tokens)
        /\ Printed("parse_error") =>
               judgment_data = ParseFailureVerdict(evaluation_tokens)
        /\ Printed("evaluation_error") => judgment_data = UnavailableVerdict
        /\ Printed("precheck") =>
               /\ judgment_data["score"] = PyInt(1)
               /\ judgment_data["hallucination_flag"] = PyBool(TRUE)
               /\ judgment_data["tokens"] = PyInt(0)

\* a verdict with flag false was returned although the high-score trace fired
C13_Witness ==
    /\ Returned
    /\ Printed("high_score_suspicious")
    /\ ~Printed("hallucination")
    /\ judgment_data["hallucination_flag"] = PyBool(FALSE)

\* C16: when the judge's text is valid JSON but no object (a number, null, a
\* boolean, a string or an array, also one holding the three field names),
\* the verdict is the parse-failure default carrying the reported tokens.
C16_NonObjectJsonGivesParseFailureDefault ==
    (/\ Returned
     /\ call_result = "replied"
     /\ evaluation_text.form = "json"
     /\ evaluation_text.doc.j # "object")
    => judgment_data =
           [score |-> PyInt(3),
            rationale |-> PyStr("Evaluation parsing failed - assigned neutral score"),
            hallucination_flag |-> PyBool(FALSE),
            tokens |-> PyInt(evaluation_tokens)]

\* C17: within one invocation the judge call is issued only after the
\* pre-check has ended without a match; parsing yields a result only after
\* the call has replied; and once the pre-check has produced the verdict no
\* step of evaluate_response runs any more.
C17_StepsAreOrdered ==
    [][ /\ judge_calls' # judge_calls =>
               /\ PrefilterDone
               /\ path # "prefilter"
               /\ call_result = "none"
        /\ (path' \in {"parsed", "parse_failed"} /\ path' # path) =>
               /\ call_result = "replied"
               /\ judge_calls = 1
        /\ call_result' # call_result => judge_calls = 1
        /\ path = "prefilter" =>
               UNCHANGED <<eval_pc, judge_calls, call_result, evaluation_text,
                           evaluation_tokens, path, judgment_data, trace>>
      ]_vars

\* the handler went on after a pre-check verdict, with no call and no parse
C17_Witness ==
    /\ path = "prefilter"
    /\ chat_pc = "done"
    /\ judge_calls = 0
    /\ trace = <<"precheck">>

\* C18: after a successful parse of an object that itself has a "tokens" key
\* and a further key, tokens is the count the judge call reported and score,
\* rationale and hallucination_flag are the object's values.
C18_ReportedTokensOverwriteJudgeKey ==
    (/\ Returned
     /\ call_result = "replied"
     /\ WellFormedJudgeText(evaluation_text)
     /\ {"tokens", "confidence"} \subseteq DOMAIN evaluation_text.doc.members)
    => LET m == evaluation_text.doc.members
       IN  /\ judgment_data["tokens"] = PyInt(evaluation_tokens)
           /\ judgment_data["tokens"].n # m["tokens"].n
           /\ judgment_data["score"].n = m["score"].n
           /\ judgment_data["rationale"] = RationaleOf(m["rationale"])
           /\ judgment_data["hallucination_flag"].n =
                  (IF m["hallucination_flag"].j = "true" THEN 1 ELSE 0)

C18_Witness ==
    /\ Returned
    /\ path = "parsed"
    /\ "tokens" \in DOMAIN evaluation_text.doc.members
    /\ evaluation_text.doc.members["tokens"].n = 9
    /\ evaluation_tokens = 120
    /\ judgment_data["tokens"].n = 120

\* Python's == on the values of the model: numbers compare by value
PyEq(a, b) ==
    IF a.t \in {"int", "bool", "float"} /\ b.t \in {"int", "bool", "float"}
    THEN a.n = b.n
    ELSE a = b

\* C19: whenever /chat answers with success, exactly one row was committed
\* and its judgment_score, judgment_rationale, hallucination_flag and
\* judgment_tokens equal the response's score, rationale, hallucination_flag
\* and tokens_used, which equal the verdict evaluate_response returned.
C19_SuccessMeansOneMatchingRow ==
    http.status = 200 =>
        /\ Len(chat_logs) = 1
        /\ Returned
        /\ LET row == chat_logs[1]
               out == http.judgment
           IN  /\ PyEq(row.judgment_score, out["score"])
               /\ PyEq(out["score"], judgment_data["score"])
               /\ PyEq(row.judgment_rationale, out["rationale"])
               /\ PyEq(out["rationale"], judgment_data["rationale"])
               /\ PyEq(row.hallucination_flag, out["hallucination_flag"])
               /\ PyEq(out["hallucination_flag"],
                       judgment_data["hallucination_flag"])
               /\ PyEq(row.judgment_tokens, out["tokens_used"])
               /\ PyEq(out["tokens_used"], judgment_data["tokens"])

\* a success whose verdict came from the judge's own object
C19_Witness ==
    /\ http.status = 200
    /\ path = "parsed"
    /\ judgment_data["tokens"] = PyInt(57)
    /\ Len(chat_logs) = 1

\* C20: whenever /chat answers HTTP 500, no row has been committed for the
\* request.
C20_ErrorMeansNothingCommitted ==
    http.status = 500 => Len(chat_logs) = 0

\* what one invocation returns when nothing else runs: the pre-check verdict,
\* the unavailable default after a failed call, or the outcome of parsing
AloneVerdict(args, outcome) ==
    IF PrefilterMatches(args.user_prompt, args.ai_response)
    THEN PrefilterVerdict(MatchedPattern(args.user_prompt, args.ai_response))
    ELSE IF outcome.kind = "failed" THEN UnavailableVerdict
    ELSE LET r == ParseEvaluation(outcome.text, outcome.tokens)
         IN  IF r.exc = "none" THEN r.data
             ELSE IF CaughtByParseHandler(r.exc)
             THEN ParseFailureVerdict(outcome.tokens)
             ELSE UnavailableVerdict

BothReturned == \A p \in Invocations : pair_pc[p] = "returned"

\* invocation p went through all its steps before q was entered
RanBefore(p, q) ==
    /\ stdout # <<>>
    /\ \E k \in 1..Len(stdout) :
           /\ \A i \in 1..k : stdout[i][1] = p
           /\ \A i \in (k + 1)..Len(stdout) : stdout[i][1] = q

\* C11: two invocations given the same prompt, the same response and the
\* same judge outcome return equal verdicts, whatever ran before or between.
C11_SameInputsSameVerdict ==
    (/\ BothReturned
     /\ pair_args[1] = pair_args[2]
     /\ pair_outcome[1] = pair_outcome[2])
    => pair_result[1] = pair_result[2]

\* the second invocation parsed the same judge reply after the first was over
C11_Witness ==
    /\ BothReturned
    /\ pair_args[1] = pair_args[2]
    /\ pair_outcome[1] = pair_outcome[2]
    /\ pair_outcome[1].kind = "replied"
    /\ pair_outcome[1].text.form = "json"
    /\ RanBefore(1, 2)
    /\ Len(stdout) >= 8

\* C12: under every interleaving of the steps of two invocations, each
\* returned verdict is the one that invocation returns when run alone with
\* its own arguments and its own judge outcome.
C12_InterleavedAsAlone ==
    \A p \in Invocations :
        pair_pc[p] = "returned" =>
            pair_result[p] = AloneVerdict(pair_args[p], pair_outcome[p])

\* different interactions, the second one's call and reply falling between
\* the first one's call and reply
C12_Witness ==
    /\ BothReturned
    /\ pair_args[1] # pair_args[2]
    /\ pair_outcome[1].kind = "replied"
    /\ pair_outcome[2].kind = "replied"
    /\ pair_outcome[1].text # pair_outcome[2].text
    /\ pair_outcome[1].tokens # pair_outcome[2].tokens
    /\ \E i, j, k \in 1..Len(stdout) :
           /\ i < j /\ j < k
           /\ stdout[i] = <<1, "starting">>
           /\ stdout[j] = <<2, "text_received">>
           /\ stdout[k] = <<1, "raw_response">>

\* C21: in /chat the judge evaluation is reached only after a successful
\* main completion: without an API key the request ends in HTTP 500 before
\* any remote call, and after a failed main completion evaluate_response is
\* never invoked and the request ends in HTTP 500.
C21_JudgeOnlyAfterMainCompletion ==
    /\ (~api_key /\ chat_pc # "idle") =>
           /\ chat_pc = "done"
           /\ http = HTTP500
           /\ total_tokens = 0
           /\ judge_calls = 0
           /\ eval_pc = "not_called"
    /\ eval_pc # "not_called" =>
           /\ api_key
           /\ ai_response \in ResponseTexts
           /\ total_tokens \in MainTokenCounts
    /\ (chat_pc = "done" /\ eval_pc = "not_called") =>
           /\ http = HTTP500
           /\ judge_calls = 0
           /\ chat_logs = <<>>

\* the key was configured and the main completion failed
C21_Witness ==
    /\ api_key
    /\ chat_pc = "done"
    /\ eval_pc = "not_called"
    /\ http = HTTP500
    /\ ai_response = <<>>

ResponseHas(pat) == IsSubstring(pat, Lower(ai_response))

\* C29: whenever the high-score-with-suspicious-pattern check is evaluated
\* (validation has succeeded), the response contains neither 'letort' nor
\* 'xyz corp'; so when the trace fires the response contains '9000' or 'acme'.
C29_SuspiciousTraceOnlyFor9000OrAcme ==
    /\ Printed("parsed") =>
           /\ ~ResponseHas(<<"l", "e", "t", "o", "r", "t">>)
           /\ ~ResponseHas(<<"x", "y", "z", " ", "c", "o", "r", "p">>)
    /\ Printed("high_score_suspicious") =>
           \/ ResponseHas(<<"9", "0", "0", "0">>)
           \/ ResponseHas(<<"a", "c", "m", "e">>)

\* the trace fired for a response holding '9000'
C29_Witness ==
    /\ Printed("high_score_suspicious")
    /\ ResponseHas(<<"9", "0", "0", "0">>)
    /\ judgment_data["score"].n = 5

Answered(page) ==
    page \in DOMAIN pages_served /\ pages_served[page].status = 200

\* C22: every answer of GET /sessions reports has_next exactly when a record
\* lies beyond the page (page * limit < n), has_previous exactly when
\* page > 1, and total_pages = ceil(n / limit) for n > 0 and 1 for n = 0.
C22_PageFlagsMatchCounts ==
    \A page \in 1..MaxPage :
        Answered(page) =>
            LET r == pages_served[page]
                n == Len(log_rows)
            IN  /\ r.total_count = n
                /\ r.has_next <=> (page * limit < n)
                /\ r.has_previous <=> (page > 1)
                /\ n = 0 => r.total_pages = 1
                /\ n > 0 => /\ r.total_pages * limit >= n
                            /\ (r.total_pages - 1) * limit < n

\* three rows in pages of two: the first page has a next one, the second
\* has none, and the page past the end was answered too
C22_Witness ==
    /\ Len(log_rows) = 3
    /\ limit = 2
    /\ Answered(1) /\ pages_served[1].has_next
    /\ Answered(2) /\ ~pages_served[2].has_next
    /\ Answered(3) /\ pages_served[3].sessions = <<>>

AllPagesAnswered ==
    /\ Answered(1)
    /\ \A page \in 1..pages_served[1].total_pages : Answered(page)

RowsOn(page) ==
    { pages_served[page].sessions[i].row :
          i \in 1..Len(pages_served[page].sessions) }

\* C23: with the table unchanged and the limit fixed, pages 1..total_pages
\* together return every record exactly once, also when records share a
\* created_at; page 1 holds the most recent records and each page lists its
\* sessions oldest to newest.
C23_PagesPartitionTheRecords ==
    AllPagesAnswered =>
        LET last == pages_served[1].total_pages
        IN  /\ UNION { RowsOn(page) : page \in 1..last } = 1..Len(log_rows)
            /\ \A p, q \in 1..last : p # q => RowsOn(p) \cap RowsOn(q) = {}
            /\ \A row \in RowsOn(1), other \in 1..Len(log_rows) :
                   other \notin RowsOn(1) => log_rows[row] >= log_rows[other]
            /\ \A page \in 1..last :
                   LET ss == pages_served[page].sessions
                   IN  \A i, j \in 1..Len(ss) : i < j => ss[i].ts <= ss[j].ts

MigReturned(value) == mig_pc = "returned" /\ run_result = value

\* C24: run_migration is idempotent: from any subset of the five judgment
\* columns a run that returns True leaves all five present, and a run that
\* follows it executes no ALTER TABLE, leaves the columns as they were and,
\* unless one of its own queries raises, returns True.
C24_MigrationIsIdempotent ==
    /\ MigReturned("True") => JudgmentColumnSet \subseteq columns
    /\ (runs >= 2 /\ prev_result = "True") =>
           /\ alters_in_run = 0
           /\ columns = columns_at_start
           /\ pending = {}
           /\ mig_pc \notin {"begin", "alter", "commit", "verify"}
           /\ (mig_pc = "returned" /\ failed_at = "none") => run_result = "True"

\* the first run added the three missing columns, the second returned True
C24_Witness ==
    /\ Cardinality(columns_at_first \cap JudgmentColumnSet) = 2
    /\ runs = 2
    /\ prev_result = "True"
    /\ MigReturned("True")
    /\ JudgmentColumnSet \subseteq columns

\* C25: run_migration is atomic on failure: when an ALTER TABLE statement
\* raises, also after other columns were added in the same run, the columns
\* are those from before the run and the run returns False; when chat_logs
\* does not exist the run returns False and changes nothing.
C25_FailureRollsBack ==
    /\ (mig_pc = "returned" /\ failed_at = "alter") =>
           /\ run_result = "False"
           /\ columns = columns_at_start
           /\ pending = {}
    /\ (mig_pc = "returned" /\ ~table_exists /\ failed_at = "none") =>
           /\ run_result = "False"
           /\ columns = columns_at_start
           /\ alters_in_run = 0

\* two columns had been added when the third ALTER TABLE raised
C25_Witness ==
    /\ mig_pc = "returned"
    /\ failed_at = "alter"
    /\ alters_in_run = 2
    /\ run_result = "False"
    /\ columns = columns_at_start

\* C26: run_migration only adds: in every run, returning True or False,
\* every column present before is still present, the rows are untouched, and
\* whatever is new is one of the judgment columns that were missing.
C26_MigrationOnlyAdds ==
    [][ /\ columns \subseteq columns'
        /\ (columns' \cup pending') \ (columns \cup pending)
               \subseteq JudgmentColumnSet
        /\ table_rows' = table_rows
        /\ table_exists' = table_exists ]_vars

\* a run over a table with rows and two of the columns added the other three
C26_Witness ==
    /\ MigReturned("True")
    /\ alters_in_run = 3
    /\ table_rows = 2
    /\ columns_at_start \subseteq columns
    /\ columns # columns_at_start

\* C27: after any sequence of requests total_sent = successful + failed,
\* the three sentiment counters together do not exceed successful, and
\* total_sent does not exceed the requested count.
C27_CountersAddUp ==
    /\ stats.total_sent = stats.successful + stats.failed
    /\ stats.positive_responses + stats.negative_responses
           + stats.neutral_responses <= stats.successful
    /\ stats.total_sent <= gen_count

\* three requests: one failed, one positive, one answered without sentiment
C27_Witness ==
    /\ gen_count = 3
    /\ stats.total_sent = 3
    /\ stats.failed = 1
    /\ stats.successful = 2
    /\ stats.positive_responses = 1
    /\ stats.negative_responses = 0
    /\ stats.neutral_responses = 0

\* C28: wherever the interrupt arrives after construction, no request is
\* started once the handler has run, and generate_test_data ends by printing
\* the final statistics without raising.
C28_InterruptStopsGracefully ==
    /\ started_after_signal = 0
    /\ gen_pc = "done" => gen_outcome = "printed"

====
